---------------------------- MODULE Spec2Model ----------------------------
(***************************************************************************)
(* XSLTProcessor.js: a JavaScript facade over a JAXP XSLT transformer.     *)
(*                                                                         *)
(* JavaScript strings are sequences of one-character strings, so that      *)
(* concatenation, parsing and serialization are computed and not assumed.  *)
(* JavaScript values are records tagged by the field t.                    *)
(***************************************************************************)
EXTENDS Integers, Sequences, FiniteSets, TLC

VARIABLES
    factoryImpl,       \* which TransformerFactory class was loaded
    transformer,       \* the instance's transformer handle, or Absent
    uriResolver,       \* the resolver captured at construction, or Absent
    callback,          \* uriResolver.self.callback, or Absent
    parameters,        \* the transformer's parameter table
    outputProperties,  \* the transformer's output properties set by name
    last,              \* the last completed call: op, args, outcome, value
    engineLog,         \* what the engine did during the last call
    calls              \* arguments of the setUriResolver calls so far

vars == <<factoryImpl, transformer, uriResolver, callback, parameters,
          outputProperties, last, engineLog, calls>>

---------------------------------------------------------------------------
(* Bounds of the model. *)

\* longest list value given to the encoder
MaxLen == 2
\* longest recorded history of setUriResolver calls
MaxCalls == 3
\* most resource requests the engine makes during one transform
MaxReq == 1

---------------------------------------------------------------------------
(* JavaScript values. *)

Absent == [t |-> "absent"]
Undefined == [t |-> "undefined"]
Null == [t |-> "null"]
Bool(b) == [t |-> "boolean", b |-> b]
Num(n) == [t |-> "number", n |-> n]
Str(s) == [t |-> "string", s |-> s]
Fn(src, ret) == [t |-> "function", src |-> src, ret |-> ret]
Arr(items) == [t |-> "array", items |-> items]
Obj(props) == [t |-> "object", props |-> props]
Xml(node) == [t |-> "xml", node |-> node]

Prop(key, val) == [key |-> key, val |-> val]
Elem(name, attrs, kids) == [t |-> "elem", name |-> name, attrs |-> attrs, kids |-> kids]
Text(s) == [t |-> "text", s |-> s]
Attr(name, val) == [name |-> name, val |-> val]

typeof(value) ==
    CASE value.t \in {"null", "array", "object", "java"} -> "object"
      [] OTHER -> value.t

isUndefined(value) == typeof(value) = "undefined"
isNull(value) == value = Null
isString(value) == typeof(value) = "string"
isFunction(value) == typeof(value) = "function"
isObject(value) == ~isNull(value) /\ typeof(value) = "object"
isArray(value) == isObject(value) /\ value.t = "array"
isXML(value) == typeof(value) = "xml"

\* ToBoolean, as the operators || and if apply it
Truthy(value) ==
    CASE value.t \in {"undefined", "null", "absent"} -> FALSE
      [] value.t = "boolean" -> value.b
      [] value.t = "number" -> value.n # 0
      [] value.t = "string" -> value.s # <<>>
      [] OTHER -> TRUE

\* a || b
Or(a, b) == IF Truthy(a) THEN a ELSE b

Digits == <<"0", "1", "2", "3", "4", "5", "6", "7", "8", "9">>

RECURSIVE NumToStr(_)
NumToStr(n) ==
    IF n < 0 THEN <<"-">> \o NumToStr(0 - n)
    ELSE IF n < 10 THEN <<Digits[n + 1]>>
    ELSE NumToStr(n \div 10) \o <<Digits[(n % 10) + 1]>>

RECURSIVE Concat(_)
Concat(ss) == IF ss = <<>> THEN <<>> ELSE Head(ss) \o Concat(Tail(ss))

RECURSIVE JoinWith(_, _)
JoinWith(ss, sep) ==
    IF ss = <<>> THEN <<>>
    ELSE IF Len(ss) = 1 THEN ss[1]
    ELSE ss[1] \o sep \o JoinWith(Tail(ss), sep)

---------------------------------------------------------------------------
(* Markup: E4X serialization and the XML parser. *)

Letters == {"a", "b", "c", "d", "e", "f", "g", "h", "i", "j", "k", "l", "m",
            "n", "o", "p", "q", "r", "s", "t", "u", "v", "w", "x", "y", "z",
            "A", "B", "C", "D", "E", "F", "G", "H", "I", "J", "K", "L", "M",
            "N", "O", "P", "Q", "R", "S", "T", "U", "V", "W", "X", "Y", "Z", "_"}
NameChars == Letters \cup {"0", "1", "2", "3", "4", "5", "6", "7", "8", "9",
                           "-", ".", ":"}
Whitespace == {" ", "\n", "\t"}

\* character data written into markup: & < > become entity references
RECURSIVE Escape(_)
Escape(s) ==
    IF s = <<>> THEN <<>>
    ELSE (CASE Head(s) = "<" -> <<"&", "l", "t", ";">>
            [] Head(s) = ">" -> <<"&", "g", "t", ";">>
            [] Head(s) = "&" -> <<"&", "a", "m", "p", ";">>
            [] OTHER -> <<Head(s)>>) \o Escape(Tail(s))

RECURSIVE AttrsToStr(_)
AttrsToStr(attrs) ==
    IF attrs = <<>> THEN <<>>
    ELSE <<" ">> \o Head(attrs).name \o <<"=", "\"">> \o Escape(Head(attrs).val)
         \o <<"\"">> \o AttrsToStr(Tail(attrs))

\* the text of a node and its descendants
RECURSIVE TextContent(_)
TextContent(node) ==
    IF node.t = "text" THEN node.s
    ELSE Concat([i \in 1..Len(node.kids) |-> TextContent(node.kids[i])])

HasSimpleContent(node) ==
    node.t = "text" \/ \A i \in 1..Len(node.kids) : node.kids[i].t = "text"

Indent(n) == [i \in 1..n |-> " "]

\* XML.prototype.toXMLString with the default XML.prettyPrinting = true and
\* XML.prettyIndent = 2
RECURSIVE ToXMLString(_, _)
ToXMLString(node, depth) ==
    IF node.t = "text" THEN Indent(depth) \o Escape(node.s)
    ELSE LET open == Indent(depth) \o <<"<">> \o node.name \o AttrsToStr(node.attrs)
             close == <<"<", "/">> \o node.name \o <<">">>
         IN  IF node.kids = <<>> THEN open \o <<"/", ">">>
             ELSE IF HasSimpleContent(node)
             THEN open \o <<">">> \o Escape(TextContent(node)) \o close
             ELSE open \o <<">", "\n">>
                  \o Concat([i \in 1..Len(node.kids) |->
                               ToXMLString(node.kids[i], depth + 2) \o <<"\n">>])
                  \o Indent(depth) \o close

toXMLString(value) == ToXMLString(value.node, 0)

\* the identity transformer's serialization of a DOM node, no declaration
RECURSIVE Serialize(_)
Serialize(node) ==
    IF node.t = "text" THEN Escape(node.s)
    ELSE LET open == <<"<">> \o node.name \o AttrsToStr(node.attrs)
         IN  IF node.kids = <<>> THEN open \o <<"/", ">">>
             ELSE open \o <<">">>
                  \o Concat([i \in 1..Len(node.kids) |-> Serialize(node.kids[i])])
                  \o <<"<", "/">> \o node.name \o <<">">>

\* <?xml version="1.0" encoding="UTF-8"?>
XmlDeclaration ==
    <<"<", "?", "x", "m", "l", " ", "v", "e", "r", "s", "i", "o", "n", "=", "\"",
      "1", ".", "0", "\"", " ", "e", "n", "c", "o", "d", "i", "n", "g", "=", "\"",
      "U", "T", "F", "-", "8", "\"", "?", ">">>

ParseError == [ok |-> FALSE]

At(s, i) == IF i >= 1 /\ i <= Len(s) THEN s[i] ELSE ""

StartsWithAt(s, i, prefix) ==
    /\ i + Len(prefix) - 1 <= Len(s)
    /\ \A k \in 1..Len(prefix) : s[i + k - 1] = prefix[k]

RECURSIVE NameEnd(_, _)
NameEnd(s, i) == IF At(s, i) \in NameChars THEN NameEnd(s, i + 1) ELSE i

RECURSIVE SkipSpace(_, _)
SkipSpace(s, i) == IF At(s, i) \in Whitespace THEN SkipSpace(s, i + 1) ELSE i

\* character data from position i up to the stop character, entity references
\* replaced; fails on a bare & and, inside an attribute value, on <
RECURSIVE ParseChars(_, _, _, _)
ParseChars(s, i, stop, acc) ==
    IF i > Len(s) \/ s[i] = stop THEN [ok |-> TRUE, s |-> acc, next |-> i]
    ELSE IF s[i] = "<" THEN ParseError
    ELSE IF s[i] = "&"
    THEN CASE StartsWithAt(s, i, <<"&", "l", "t", ";">>) ->
                ParseChars(s, i + 4, stop, Append(acc, "<"))
           [] StartsWithAt(s, i, <<"&", "g", "t", ";">>) ->
                ParseChars(s, i + 4, stop, Append(acc, ">"))
           [] StartsWithAt(s, i, <<"&", "a", "m", "p", ";">>) ->
                ParseChars(s, i + 5, stop, Append(acc, "&"))
           [] OTHER -> ParseError
    ELSE ParseChars(s, i + 1, stop, Append(acc, s[i]))

\* name="value" pairs after an element name
RECURSIVE ParseAttrs(_, _, _)
ParseAttrs(s, i, acc) ==
    LET j == SkipSpace(s, i)
        e == NameEnd(s, j)
    IN  IF At(s, j) \notin Letters THEN [ok |-> TRUE, attrs |-> acc, next |-> j]
        ELSE IF j = i \/ At(s, e) # "=" \/ At(s, e + 1) # "\"" THEN ParseError
        ELSE LET v == ParseChars(s, e + 2, "\"", <<>>)
             IN  IF ~v.ok \/ At(s, v.next) # "\"" THEN ParseError
                 ELSE IF \E k \in 1..Len(acc) : acc[k].name = SubSeq(s, j, e - 1)
                 THEN ParseError
                 ELSE ParseAttrs(s, v.next + 1,
                                 Append(acc, Attr(SubSeq(s, j, e - 1), v.s)))

RECURSIVE ParseElement(_, _)
RECURSIVE ParseContent(_, _, _)
\* an element starting at position i
ParseElement(s, i) ==
    IF At(s, i) # "<" \/ At(s, i + 1) \notin Letters THEN ParseError
    ELSE LET e == NameEnd(s, i + 1)
             name == SubSeq(s, i + 1, e - 1)
             a == ParseAttrs(s, e, <<>>)
         IN  IF ~a.ok THEN ParseError
             ELSE IF StartsWithAt(s, a.next, <<"/", ">">>)
             THEN [ok |-> TRUE, node |-> Elem(name, a.attrs, <<>>), next |-> a.next + 2]
             ELSE IF At(s, a.next) # ">" THEN ParseError
             ELSE LET c == ParseContent(s, a.next + 1, <<>>)
                  IN  IF ~c.ok THEN ParseError
                      ELSE LET close == <<"<", "/">> \o name
                               z == SkipSpace(s, c.next + Len(close))
                           IN  IF StartsWithAt(s, c.next, close) /\ At(s, z) = ">"
                                  /\ NameEnd(s, c.next + 2) = c.next + Len(close)
                               THEN [ok |-> TRUE, node |-> Elem(name, a.attrs, c.kids),
                                     next |-> z + 1]
                               ELSE ParseError

\* the children of an element, up to its end tag at position next
ParseContent(s, i, kids) ==
    IF i > Len(s) THEN ParseError
    ELSE IF StartsWithAt(s, i, <<"<", "/">>) THEN [ok |-> TRUE, kids |-> kids, next |-> i]
    ELSE IF s[i] = "<"
    THEN LET el == ParseElement(s, i)
         IN  IF ~el.ok THEN ParseError
             ELSE ParseContent(s, el.next, Append(kids, el.node))
    ELSE LET tx == ParseChars(s, i, "<", <<>>)
         IN  IF ~tx.ok THEN ParseError
             ELSE ParseContent(s, tx.next, Append(kids, Text(tx.s)))

\* a whole document: an optional declaration where allowed, one root element
ParseDocument(s, allowDecl) ==
    LET hasDecl == StartsWithAt(s, 1, XmlDeclaration)
        start == IF hasDecl THEN Len(XmlDeclaration) + 1 ELSE 1
        el == ParseElement(s, SkipSpace(s, start))
    IN  IF hasDecl /\ ~allowDecl THEN ParseError
        ELSE IF ~el.ok THEN ParseError
        ELSE IF SkipSpace(s, el.next) # Len(s) + 1 THEN ParseError
        ELSE [ok |-> TRUE, node |-> el.node]

RECURSIVE TrimLeft(_)
TrimLeft(s) == IF s # <<>> /\ Head(s) \in Whitespace THEN TrimLeft(Tail(s)) ELSE s

RECURSIVE TrimRight(_)
TrimRight(s) ==
    IF s # <<>> /\ s[Len(s)] \in Whitespace THEN TrimRight(SubSeq(s, 1, Len(s) - 1))
    ELSE s

Trim(s) == TrimRight(TrimLeft(s))

RECURSIVE SelectKids(_, _)
SelectKids(kids, acc) ==
    IF kids = <<>> THEN acc
    ELSE SelectKids(Tail(kids),
                    IF Head(kids).t = "text" /\ Head(kids).s = <<>> THEN acc
                    ELSE Append(acc, Head(kids)))

\* XML.ignoreWhitespace = true: text is trimmed, whitespace-only text dropped
RECURSIVE IgnoreWhitespace(_)
IgnoreWhitespace(node) ==
    IF node.t = "text" THEN Text(Trim(node.s))
    ELSE Elem(node.name, node.attrs,
              SelectKids([i \in 1..Len(node.kids) |-> IgnoreWhitespace(node.kids[i])],
                         <<>>))

\* new XML(text): an E4X value, or a failure; no XML declaration is accepted
NewXML(s) ==
    IF \A k \in 1..Len(s) : s[k] \notin {"<", "&"}
    THEN [ok |-> TRUE, value |-> Xml(Text(Trim(s)))]
    ELSE LET d == ParseDocument(s, FALSE)
         IN  IF d.ok THEN [ok |-> TRUE, value |-> Xml(IgnoreWhitespace(d.node))]
             ELSE ParseError

---------------------------------------------------------------------------
(* String(value) and the value -> markup encoder. *)

\* XML.prototype.toString
XMLToString(value) ==
    IF HasSimpleContent(value.node) THEN TextContent(value.node)
    ELSE toXMLString(value)

RECURSIVE String(_)
String(value) ==
    CASE value.t = "undefined" ->
            <<"u", "n", "d", "e", "f", "i", "n", "e", "d">>
      [] value.t = "null" -> <<"n", "u", "l", "l">>
      [] value.t = "boolean" ->
            IF value.b THEN <<"t", "r", "u", "e">> ELSE <<"f", "a", "l", "s", "e">>
      [] value.t = "number" -> NumToStr(value.n)
      [] value.t = "string" -> value.s
      [] value.t = "function" -> value.src
      [] value.t = "array" ->
            JoinWith([i \in 1..Len(value.items) |->
                        IF value.items[i].t \in {"undefined", "null"} THEN <<>>
                        ELSE String(value.items[i])], <<",">>)
      [] value.t = "object" ->
            <<"[", "o", "b", "j", "e", "c", "t", " ", "O", "b", "j", "e", "c", "t", "]">>
      [] value.t = "xml" -> XMLToString(value)
      [] value.t = "java" -> value.s

\* <root>, </root>
RootOpen == <<"<", "r", "o", "o", "t", ">">>
RootClose == <<"<", "/", "r", "o", "o", "t", ">">>
\* <item index=", ">, </item>
ItemOpen == <<"<", "i", "t", "e", "m", " ", "i", "n", "d", "e", "x", "=", "\"">>
ItemOpenEnd == <<"\"", ">">>
ItemClose == <<"<", "/", "i", "t", "e", "m", ">">>

\* the anonymous recursive function inside value2xml
RECURSIVE value2xmlInner(_)
value2xmlInner(value) ==
    IF isArray(value)
    THEN Concat([c \in 1..Len(value.items) |->
                   ItemOpen \o NumToStr(c - 1) \o ItemOpenEnd
                   \o value2xmlInner(value.items[c]) \o ItemClose])
    ELSE IF isObject(value)
    THEN Concat([k \in 1..Len(value.props) |->
                   <<"<">> \o value.props[k].key \o <<">">>
                   \o value2xmlInner(value.props[k].val)
                   \o <<"<", "/">> \o value.props[k].key \o <<">">>])
    ELSE String(Or(value, Str(<<>>)))

value2xml(value) ==
    RootOpen
    \o (IF isObject(value) THEN value2xmlInner(value)
        ELSE String(Or(value, Str(<<>>))))
    \o RootClose

---------------------------------------------------------------------------
(* The host: files, Java objects, the XSLT engine. *)

JavaString(s) == [t |-> "java", class |-> "String", s |-> s]
StringWriter(s) == [t |-> "java", class |-> "StringWriter", s |-> s]
Document(node) == [t |-> "java", class |-> "Document", node |-> node]
Transformer(sheet) == [t |-> "java", class |-> "Transformer", sheet |-> sheet]
DefaultURIResolver == [t |-> "java", class |-> "URIResolver"]
\* new StreamSource(systemId) and new StreamSource(new StringReader(text))
StreamSourceOfId(systemId) == [t |-> "java", class |-> "StreamSource", systemId |-> systemId]
StreamSourceOfReader(text) == [t |-> "java", class |-> "StreamSource", reader |-> text]

EmptyTable == [k \in {} |-> Null]
Lookup(table, key) == IF key \in DOMAIN table THEN table[key] ELSE Null
Holds(table, key, val) == key \in DOMAIN table /\ table[key] = val
Put(table, key, val) ==
    [k \in (DOMAIN table) \cup {key} |-> IF k = key THEN val ELSE table[k]]

\* s.xsl, b.xsl, d.xml, e.xml, nofile.xml
SheetPath == <<"s", ".", "x", "s", "l">>
BadSheetPath == <<"b", ".", "x", "s", "l">>
DocPath == <<"d", ".", "x", "m", "l">>
BadDocPath == <<"e", ".", "x", "m", "l">>
NoFilePath == <<"n", "o", "f", "i", "l", "e", ".", "x", "m", "l">>

\* <xsl:stylesheet version="2.0"><xsl:output method="xml"/></xsl:stylesheet>
SheetText ==
    <<"<", "x", "s", "l", ":", "s", "t", "y", "l", "e", "s", "h", "e", "e", "t", " ",
      "v", "e", "r", "s", "i", "o", "n", "=", "\"", "2", ".", "0", "\"", ">",
      "<", "x", "s", "l", ":", "o", "u", "t", "p", "u", "t", " ",
      "m", "e", "t", "h", "o", "d", "=", "\"", "x", "m", "l", "\"", "/", ">",
      "<", "/", "x", "s", "l", ":", "s", "t", "y", "l", "e", "s", "h", "e", "e", "t", ">">>

\* the files readFile can read: a stylesheet, a document that is no
\* stylesheet, an input document, a text that is no document
Files ==
    [p \in {SheetPath, BadSheetPath, DocPath, BadDocPath} |->
        CASE p = SheetPath -> SheetText
          [] p = BadSheetPath -> <<"<", "r", "o", "o", "t", "/", ">">>
          [] p = DocPath -> <<"<", "r", "o", "o", "t", "/", ">">>
          [] p = BadDocPath -> <<"<", "r", "o", "o", "t", ">">>]

\* names the engine knows
XslStylesheet == <<"x", "s", "l", ":", "s", "t", "y", "l", "e", "s", "h", "e", "e", "t">>
XslTransform == <<"x", "s", "l", ":", "t", "r", "a", "n", "s", "f", "o", "r", "m">>
XslOutput == <<"x", "s", "l", ":", "o", "u", "t", "p", "u", "t">>
VersionName == <<"v", "e", "r", "s", "i", "o", "n">>
MethodName == <<"m", "e", "t", "h", "o", "d">>
IndentName == <<"i", "n", "d", "e", "n", "t">>
OmitName == <<"o", "m", "i", "t", "-", "x", "m", "l", "-",
              "d", "e", "c", "l", "a", "r", "a", "t", "i", "o", "n">>
ParamName == <<"p", "a", "r", "a", "m">>
XmlWord == <<"x", "m", "l">>
TextWord == <<"t", "e", "x", "t">>
HtmlWord == <<"h", "t", "m", "l">>
YesWord == <<"y", "e", "s">>
NoWord == <<"n", "o">>

\* TransformerFactory.newTransformer(Source): compiles the stylesheet text
newTransformer(text) ==
    LET d == ParseDocument(text, TRUE)
    IN  IF /\ d.ok
           /\ d.node.name \in {XslStylesheet, XslTransform}
           /\ \E i \in 1..Len(d.node.attrs) : d.node.attrs[i].name = VersionName
        THEN [ok |-> TRUE, transformer |-> Transformer(d.node)]
        ELSE [ok |-> FALSE]

\* the attributes of the stylesheet's xsl:output declarations
RECURSIVE OutputDeclarations(_)
OutputDeclarations(kids) ==
    IF kids = <<>> THEN <<>>
    ELSE (IF Head(kids).t = "elem" /\ Head(kids).name = XslOutput
          THEN Head(kids).attrs ELSE <<>>) \o OutputDeclarations(Tail(kids))

RECURSIVE AttrsToTable(_, _)
AttrsToTable(attrs, table) ==
    IF attrs = <<>> THEN table
    ELSE AttrsToTable(Tail(attrs), Put(table, Head(attrs).name, Head(attrs).val))

\* Transformer.getOutputProperties(): the properties set by name override those
\* the stylesheet declares
transformerOutputProperties ==
    LET declared == AttrsToTable(OutputDeclarations(transformer.sheet.kids), EmptyTable)
    IN  [k \in (DOMAIN declared) \cup (DOMAIN outputProperties) |->
            IF k \in DOMAIN outputProperties THEN outputProperties[k] ELSE declared[k]]

\* Transformer.setOutputProperty raises IllegalArgumentException for a name
\* it does not recognize; Saxon also checks the value
AcceptsOutputProperty(name, value) ==
    /\ name \in {MethodName, IndentName, OmitName}
    /\ factoryImpl = "saxon" =>
          IF name = MethodName THEN value \in {XmlWord, TextWord, HtmlWord}
          ELSE value \in {YesWord, NoWord}

\* Transformer.setParameter: Saxon rejects a malformed {uri}local name
AcceptsParameter(name) ==
    factoryImpl = "saxon" /\ name # <<>> /\ Head(name) = "{"
        => \E i \in 2..(Len(name) - 1) : name[i] = "}"

\* DocumentBuilder.parse(InputSource)
documentBuilderParse(text) == ParseDocument(text, TRUE)

\* what the bound stylesheet writes: the parameter named param and the input
\* document under a root element, or their text under method text
EngineOutput(doc) ==
    LET props == transformerOutputProperties
        p == Lookup(parameters, ParamName)
        pMarkup == IF p = Null THEN <<>>
                   ELSE IF p.class = "Document" THEN Serialize(p.node)
                   ELSE Escape(p.s)
        pText == IF p = Null THEN <<>>
                 ELSE IF p.class = "Document" THEN TextContent(p.node)
                 ELSE p.s
    IN  IF Holds(props, MethodName, TextWord) THEN pText \o TextContent(doc)
        ELSE (IF Holds(props, OmitName, YesWord) THEN <<>> ELSE XmlDeclaration)
             \o <<"<", "r", "o", "o", "t", ">", "<", "p", "a", "r", "a", "m", ">">>
             \o pMarkup
             \o <<"<", "/", "p", "a", "r", "a", "m", ">", "<", "i", "n", "p", "u", "t", ">">>
             \o Serialize(doc)
             \o <<"<", "/", "i", "n", "p", "u", "t", ">", "<", "/", "r", "o", "o", "t", ">">>

\* calling a JavaScript function value: it returns one of its arguments or a
\* fixed value
Call(fn, args) == IF fn.ret.t = "argument" THEN args[fn.ret.index] ELSE fn.ret

\* whether the engine can read a document from the source a resolver returned
SourceReadable(source) ==
    IF "reader" \in DOMAIN source THEN ParseDocument(source.reader, TRUE).ok
    ELSE source.systemId \in DOMAIN Files /\ ParseDocument(Files[source.systemId], TRUE).ok

---------------------------------------------------------------------------
(* The processor. Every call ends by returning a value or throwing one. *)

Returned(op, args, value) ==
    [op |-> op, args |-> args, outcome |-> "return", value |-> value]
Thrown(op, args, value) ==
    [op |-> op, args |-> args, outcome |-> "throw", value |-> value]

\* a throw of the first operand of the comma expression
CommaFirst(a, b) == a

\* the comma operator: throw('Problem with XML document:', xmlDocumentStr)
Comma(a, b) == b

FileNotFoundMsg ==
    <<"F", "i", "l", "e", " ", "n", "o", "t", " ", "f", "o", "u", "n", "d", ":">>
StylesheetProblemMsg ==
    <<"P", "r", "o", "b", "l", "e", "m", " ", "w", "i", "t", "h", " ", "X", "S", "L",
      "T", " ", "s", "t", "y", "l", "e", "s", "h", "e", "e", "t", ":">>
SetParameterMsg ==
    <<"C", "o", "u", "l", "d", " ", "n", "o", "t", " ", "s", "e", "t", " ", "p", "a",
      "r", "a", "m", "e", "t", "e", "r", ":", " ">>
ToMsg == <<" ", "t", "o", " ">>
GetParameterMsg ==
    <<"C", "o", "u", "l", "d", " ", "n", "o", "t", " ", "g", "e", "t", " ", "a", " ",
      "p", "a", "r", "a", "m", "e", "t", "e", "r", ":", " ">>
SetOutputPropertyMsg ==
    <<"C", "o", "u", "l", "d", " ", "n", "o", "t", " ", "s", "e", "t", " ", "o", "u",
      "t", "p", "u", "t", " ", "p", "r", "o", "p", "e", "r", "t", "y", ":">>
FileDoesNotExistMsg ==
    <<"F", "i", "l", "e", " ", "d", "o", "e", "s", " ", "n", "o", "t", " ", "e", "x",
      "i", "s", "t", ":">>
XmlProblemMsg ==
    <<"P", "r", "o", "b", "l", "e", "m", " ", "w", "i", "t", "h", " ", "X", "M", "L",
      " ", "d", "o", "c", "u", "m", "e", "n", "t", ":">>

\* the JavaScript state of a call that leaves the instance as it is
Frame == UNCHANGED <<factoryImpl, transformer, uriResolver, callback, parameters,
                     outputProperties, calls>>

\* a constructor that returns an instance whatever the compile did
XSLTProcessorLenient(xsltStyleSheet) ==
    \E path \in {String(Or(xsltStyleSheet, Str(<<>>)))} :
    \E found \in {isXML(xsltStyleSheet) \/ path \in DOMAIN Files} :
    \E xsltStyleSheetStr \in {IF isXML(xsltStyleSheet) THEN toXMLString(xsltStyleSheet)
                              ELSE IF found THEN Files[path] ELSE <<>>} :
    \E compiled \in {newTransformer(xsltStyleSheetStr)} :
        /\ IF ~found
           THEN /\ last' = Thrown("new", <<xsltStyleSheet>>, Str(FileNotFoundMsg \o path))
                /\ engineLog' = <<>>
                /\ transformer' = Absent
                /\ uriResolver' = Absent
           ELSE /\ last' = Returned("new", <<xsltStyleSheet>>, Undefined)
                /\ engineLog' = <<[ev |-> "newTransformer", text |-> xsltStyleSheetStr]>>
                /\ transformer' = IF compiled.ok THEN compiled.transformer
                                  ELSE Transformer(Elem(XslStylesheet, <<>>, <<>>))
                /\ uriResolver' = DefaultURIResolver
        /\ callback' = Absent
        /\ parameters' = EmptyTable
        /\ outputProperties' = EmptyTable
        /\ calls' = <<>>
        /\ UNCHANGED factoryImpl

\* new XSLTProcessor(xsltStyleSheet): on success a fresh instance whose
\* transformer holds the compiled stylesheet and whose resolver wraps the
\* engine's own; on failure nothing is returned
XSLTProcessor(xsltStyleSheet) ==
    \E path \in {String(Or(xsltStyleSheet, Str(<<>>)))} :
    \E found \in {isXML(xsltStyleSheet) \/ path \in DOMAIN Files} :
    \E xsltStyleSheetStr \in {IF isXML(xsltStyleSheet) THEN toXMLString(xsltStyleSheet)
                              ELSE IF found THEN Files[path] ELSE <<>>} :
    \E compiled \in {newTransformer(xsltStyleSheetStr)} :
    \E compile \in {[ev |-> "newTransformer", text |-> xsltStyleSheetStr]} :
        /\ IF ~found
           THEN /\ last' = Thrown("new", <<xsltStyleSheet>>, Str(FileNotFoundMsg \o path))
                /\ engineLog' = <<>>
                /\ transformer' = Absent
                /\ uriResolver' = Absent
           ELSE IF ~compiled.ok
           THEN /\ last' = Thrown("new", <<xsltStyleSheet>>,
                                  Str(StylesheetProblemMsg \o xsltStyleSheetStr))
                /\ engineLog' = <<compile>>
                /\ transformer' = Absent
                /\ uriResolver' = Absent
           ELSE /\ last' = Returned("new", <<xsltStyleSheet>>, Undefined)
                /\ engineLog' = <<compile>>
                /\ transformer' = compiled.transformer
                /\ uriResolver' = DefaultURIResolver
        /\ callback' = Absent
        /\ parameters' = EmptyTable
        /\ outputProperties' = EmptyTable
        /\ calls' = <<>>
        /\ UNCHANGED factoryImpl

\* a resolve that never looks at the callback
resolveByDefault(href, base) ==
    [events |-> <<[ev |-> "default", resolver |-> uriResolver,
                   args |-> <<Str(href), Str(base)>>]>>,
     source |-> StreamSourceOfId(href)]

\* the resolve function handed to the engine: the source for one resource
\* request, and what was called to get it
resolve(href, base) ==
    IF Truthy(callback)
    THEN LET source == Call(callback, <<Str(href), Str(base)>>)
         IN  [events |-> <<[ev |-> "callback", fn |-> callback,
                            args |-> <<Str(href), Str(base)>>]>>,
              source |-> IF isString(source) THEN StreamSourceOfId(source.s)
                         ELSE IF isXML(source)
                         THEN StreamSourceOfReader(toXMLString(source))
                         ELSE StreamSourceOfReader(value2xml(source))]
    ELSE [events |-> <<[ev |-> "default", resolver |-> uriResolver,
                        args |-> <<Str(href), Str(base)>>]>>,
          source |-> StreamSourceOfId(href)]

\* a setUriResolver that installs whatever is not null
setUriResolverAnyValue(cb) ==
    /\ transformer # Absent
    /\ callback' = IF isNull(cb) THEN Absent ELSE cb
    /\ last' = Returned("setUriResolver", <<cb>>, Undefined)
    /\ engineLog' = <<>>
    /\ UNCHANGED <<factoryImpl, transformer, uriResolver, parameters, outputProperties>>

setUriResolver(cb) ==
    /\ transformer # Absent
    /\ callback' = IF isNull(cb) THEN Absent
                   ELSE IF isFunction(cb) THEN cb
                   ELSE callback
    /\ last' = Returned("setUriResolver", <<cb>>, Undefined)
    /\ engineLog' = <<>>
    /\ UNCHANGED <<factoryImpl, transformer, uriResolver, parameters, outputProperties>>

getUriResolver ==
    /\ transformer # Absent
    /\ last' = Returned("getUriResolver", <<>>,
                        Or(IF callback = Absent THEN Undefined ELSE callback, Null))
    /\ engineLog' = <<>>
    /\ Frame

\* no check of the name
ignoresNoName(name) == FALSE

\* if (!isString(name)) return;
ignoresName(name) == ~isString(name)

\* a try block that stores the value's string form before it parses
trySetParameterEagerly(name, value) ==
    LET xmlDocument == documentBuilderParse(IF isXML(value) THEN toXMLString(value)
                                            ELSE value2xml(value))
    IN  IF isXML(value) \/ isObject(value)
        THEN IF xmlDocument.ok /\ AcceptsParameter(String(name))
             THEN [ok |-> TRUE,
                   table |-> Put(parameters, String(name), Document(xmlDocument.node))]
             ELSE [ok |-> FALSE,
                   table |-> Put(parameters, String(name), JavaString(String(value)))]
        ELSE IF AcceptsParameter(String(name))
             THEN [ok |-> TRUE,
                   table |-> Put(parameters, String(name), JavaString(String(value)))]
             ELSE [ok |-> FALSE, table |-> parameters]

\* the body of setParameter's try block: the parameter table after it, and
\* whether it completed; the value is parsed before the engine is given it
trySetParameter(name, value) ==
    LET xmlDocument == documentBuilderParse(IF isXML(value) THEN toXMLString(value)
                                            ELSE value2xml(value))
    IN  IF isXML(value) \/ isObject(value)
        THEN IF xmlDocument.ok /\ AcceptsParameter(String(name))
             THEN [ok |-> TRUE,
                   table |-> Put(parameters, String(name), Document(xmlDocument.node))]
             ELSE [ok |-> FALSE, table |-> parameters]
        ELSE IF AcceptsParameter(String(name))
             THEN [ok |-> TRUE,
                   table |-> Put(parameters, String(name), JavaString(String(value)))]
             ELSE [ok |-> FALSE, table |-> parameters]

setParameter(name, value) ==
    /\ transformer # Absent
    /\ engineLog' = <<>>
    /\ UNCHANGED <<factoryImpl, transformer, uriResolver, callback, outputProperties, calls>>
    /\ \E args \in {<<name, value>>} :
       \E try \in {trySetParameter(name, value)} :
           IF ignoresName(name)
           THEN /\ last' = Returned("setParameter", args, Undefined)
                /\ UNCHANGED parameters
           ELSE /\ parameters' = try.table
                /\ last' = IF try.ok THEN Returned("setParameter", args, Undefined)
                           ELSE Thrown("setParameter", args,
                                       Str(SetParameterMsg \o String(name) \o ToMsg
                                           \o String(value)))

\* a serializer left with its XML declaration
serializeWithDeclaration(parameterValue) ==
    XmlDeclaration \o Serialize(parameterValue.node)

\* transformerFactory.newTransformer() with omit-xml-declaration = yes,
\* applied to the stored document
serializeParameter(parameterValue) == Serialize(parameterValue.node)

\* the body of getParameter's try block: a stored document is serialized and
\* read back as XML, anything else is converted to a string
readParameter(parameterValue) ==
    IF isObject(parameterValue) /\ parameterValue.class = "Document"
    THEN NewXML(serializeParameter(parameterValue))
    ELSE [ok |-> TRUE, value |-> Str(String(parameterValue))]

getParameter(name) ==
    /\ transformer # Absent
    /\ engineLog' = <<>>
    /\ Frame
    /\ \E result \in {readParameter(Lookup(parameters, String(name)))} :
           IF result.ok
           THEN last' = Returned("getParameter", <<name>>, result.value)
           ELSE last' = Thrown("getParameter", <<name>>,
                               Str(GetParameterMsg \o String(name)))

\* a clearParameters that clears nothing
clearNoParameters ==
    /\ transformer # Absent
    /\ UNCHANGED parameters
    /\ last' = Returned("clearParameters", <<>>, Undefined)
    /\ engineLog' = <<>>
    /\ UNCHANGED <<factoryImpl, transformer, uriResolver, callback, outputProperties, calls>>

clearParameters ==
    /\ transformer # Absent
    /\ parameters' = EmptyTable
    /\ last' = Returned("clearParameters", <<>>, Undefined)
    /\ engineLog' = <<>>
    /\ UNCHANGED <<factoryImpl, transformer, uriResolver, callback, outputProperties, calls>>

setOutputProperty(name, value) ==
    /\ transformer # Absent
    /\ engineLog' = <<>>
    /\ UNCHANGED <<factoryImpl, transformer, uriResolver, callback, parameters, calls>>
    /\ \E args \in {<<name, value>>} :
       \E coerced \in {Or(Str(String(value)), Str(<<>>))} :
           IF ignoresName(name)
           THEN /\ last' = Returned("setOutputProperty", args, Undefined)
                /\ UNCHANGED outputProperties
           ELSE IF AcceptsOutputProperty(String(name), coerced.s)
           THEN /\ outputProperties' = Put(outputProperties, String(name), coerced.s)
                /\ last' = Returned("setOutputProperty", args, Undefined)
           ELSE /\ last' = Thrown("setOutputProperty", args,
                                  Str(SetOutputPropertyMsg \o String(name) \o ToMsg
                                      \o coerced.s))
                /\ UNCHANGED outputProperties

\* the names props.stringPropertyNames() gives, in the order used here
PropertyNames == <<IndentName, MethodName, OmitName, VersionName>>

RECURSIVE PropsToObject(_, _)
PropsToObject(names, props) ==
    IF names = <<>> THEN <<>>
    ELSE (IF Head(names) \in DOMAIN props
          THEN <<Prop(Head(names), Str(String(JavaString(props[Head(names)]))))>>
          ELSE <<>>)
         \o PropsToObject(Tail(names), props)

getOutputProperties ==
    /\ transformer # Absent
    /\ engineLog' = <<>>
    /\ Frame
    /\ last' = Returned("getOutputProperties", <<>>,
                        Obj(PropsToObject(PropertyNames, transformerOutputProperties)))

getOutputProperty(name) ==
    /\ transformer # Absent
    /\ engineLog' = <<>>
    /\ Frame
    /\ \E props \in {transformerOutputProperties} :
           IF isString(name) /\ name.s \in DOMAIN props
           THEN last' = Returned("getOutputProperty", <<name>>,
                                 Str(String(JavaString(props[name.s]))))
           ELSE last' = Returned("getOutputProperty", <<name>>, Undefined)

\* the engine's run on a parsed input: the resolver is asked for each
\* requested resource, then the result is written
engineRun(start, doc, fetched, output, fault) ==
    IF ~doc.ok
    THEN [raised |-> TRUE, written |-> <<>>, log |-> <<start>>]
    ELSE IF fault \/ \E i \in 1..Len(fetched) : ~SourceReadable(fetched[i].source)
    THEN [raised |-> TRUE, written |-> SubSeq(output, 1, Len(output) \div 2),
          log |-> <<start>> \o Concat([i \in 1..Len(fetched) |-> fetched[i].events])]
    ELSE [raised |-> FALSE, written |-> output,
          log |-> <<start>> \o Concat([i \in 1..Len(fetched) |-> fetched[i].events])]

\* one resource request of the engine and what the resolver did for it
fetched(request, resolved) ==
    [events |-> <<[ev |-> "request", href |-> request.href, base |-> request.base]>>
                \o resolved.events
                \o <<[ev |-> "source", source |-> resolved.source]>>,
     source |-> resolved.source]

fetch(request) == fetched(request, resolve(request.href, request.base))

\* the requests the engine gets to make: it stops at the first source it
\* cannot read
served(all) ==
    SubSeq(all, 1,
           CHOOSE n \in 0..Len(all) :
              /\ \A j \in 1..(n - 1) : SourceReadable(all[j].source)
              /\ n = Len(all) \/ (n >= 1 /\ ~SourceReadable(all[n].source)))

engineOutputOf(doc) == IF doc.ok THEN EngineOutput(doc.node) ELSE <<>>

\* Transformer.transform: the engine parses the input, asks the resolver for
\* each resource the stylesheet requests, and writes the result; it may raise
\* at any of these steps, after part of the result is written
engineTransform(text, requests, fault) ==
    engineRun([ev |-> "transform", input |-> text],
              ParseDocument(text, TRUE),
              served([i \in 1..Len(requests) |-> fetch(requests[i])]),
              engineOutputOf(ParseDocument(text, TRUE)),
              fault)

\* what transform hands to the engine for its argument
documentText(xmlDocument) ==
    IF isXML(xmlDocument) THEN toXMLString(xmlDocument)
    ELSE IF isString(xmlDocument)
    THEN (IF xmlDocument.s \in DOMAIN Files THEN Files[xmlDocument.s] ELSE <<>>)
    ELSE value2xml(xmlDocument)

transform(xmlDocument, requests, fault) ==
    /\ transformer # Absent
    /\ Frame
    /\ \E xmlDocumentStr \in {documentText(xmlDocument)} :
       \E run \in {engineTransform(xmlDocumentStr, requests, fault)} :
          IF isString(xmlDocument) /\ xmlDocument.s \notin DOMAIN Files
          THEN /\ last' = Thrown("transform", <<xmlDocument>>,
                                 Str(FileDoesNotExistMsg \o xmlDocument.s))
               /\ engineLog' = <<>>
          ELSE IF run.raised
          THEN /\ last' = Thrown("transform", <<xmlDocument>>,
                                 Comma(Str(XmlProblemMsg), Str(xmlDocumentStr)))
               /\ engineLog' = run.log
          ELSE /\ last' = Returned("transform", <<xmlDocument>>,
                                   Str(String(StringWriter(run.written))))
               /\ engineLog' = run.log

\* value2xml applied on its own
encode(value) ==
    /\ last' = Returned("value2xml", <<value>>, Str(value2xml(value)))
    /\ engineLog' = <<>>
    /\ Frame

---------------------------------------------------------------------------
(* The values the calls are made with. *)

\* the stylesheet as an E4X value
SheetValue ==
    Xml(Elem(XslStylesheet, <<Attr(VersionName, <<"2", ".", "0">>)>>,
             <<Elem(XslOutput, <<Attr(MethodName, XmlWord)>>, <<>>)>>))
RootValue == Xml(Elem(<<"r", "o", "o", "t">>, <<>>, <<>>))
HelloValue == Xml(Elem(<<"h", "e", "l", "l", "o">>, <<>>, <<Text(<<"w">>)>>))

\* {a: 'x'}, {'1': 'x'}, {a: '<'}, [0, 'a'], function f0(){}
GoodObject == Obj(<<Prop(<<"a">>, Str(<<"x">>))>>)
BadKeyObject == Obj(<<Prop(<<"1">>, Str(<<"x">>))>>)
BadTextObject == Obj(<<Prop(<<"a">>, Str(<<"<">>))>>)
SmallList == Arr(<<Num(0), Str(<<"a">>)>>)
PlainFunction == Fn(<<"f", "0">>, Undefined)

\* callbacks returning a path, a markup value, a plain object, their href
PathCallback == Fn(<<"f", "1">>, Str(DocPath))
MarkupCallback == Fn(<<"f", "2">>, RootValue)
ObjectCallback == Fn(<<"f", "3">>, GoodObject)
HrefCallback == Fn(<<"f", "4">>, [t |-> "argument", index |-> 1])

Sources == {SheetValue, RootValue, Str(SheetPath), Str(BadSheetPath), Str(NoFilePath),
            Undefined}
NonTextual == {Num(1), Null, Undefined, Obj(<<>>)}
Hrefs == {DocPath, NoFilePath}
Requests ==
    UNION {[1..n -> [href : Hrefs, base : {<<>>}]] : n \in 0..MaxReq}

\* the primitive values, and the lists and objects of at most MaxLen entries
\* over them, one level nested
Primitives == {Undefined, Null, Bool(TRUE), Bool(FALSE), Num(0), Num(12),
               Str(<<>>), Str(<<"a">>)}
Lists(items) == UNION {[1..n -> items] : n \in 0..MaxLen}
Objects(keys, values) ==
    {Obj(<<>>)} \cup {Obj(<<Prop(k, v)>>) : k \in keys, v \in values}
EncoderValues ==
    Primitives
    \cup {Arr(l) : l \in Lists(Primitives)}
    \cup Objects({<<"a">>, <<"1">>}, Primitives)
    \cup {Arr(l) : l \in Lists({GoodObject, SmallList})}
    \cup Objects({<<"b">>}, {GoodObject, SmallList, Arr(<<Bool(FALSE)>>)})

---------------------------------------------------------------------------
(* The specifications. *)

Init ==
    /\ factoryImpl \in {"saxon", "jaxp"}
    /\ transformer = Absent
    /\ uriResolver = Absent
    /\ callback = Absent
    /\ parameters = EmptyTable
    /\ outputProperties = EmptyTable
    /\ last = Returned("none", <<>>, Undefined)
    /\ engineLog = <<>>
    /\ calls = <<>>

\* the whole processor
Next ==
    \/ \E source \in Sources : XSLTProcessor(source)
    \/ \E cb \in {Null, Undefined, PathCallback} : setUriResolver(cb) /\ UNCHANGED calls
    \/ getUriResolver
    \/ \E name \in {Str(ParamName), Str(<<"{", "x">>)} \cup NonTextual,
          value \in {Str(<<"a">>), Null, GoodObject, BadKeyObject} :
          setParameter(name, value)
    \/ \E name \in {Str(ParamName), Str(<<"{", "x">>), Num(1)} : getParameter(name)
    \/ clearParameters
    \/ \E name \in {Str(MethodName), Str(<<"b", "o", "g", "u", "s">>)} \cup NonTextual,
          value \in {Undefined, Str(TextWord), Bool(FALSE), BadKeyObject} :
          setOutputProperty(name, value)
    \/ \E name \in {Str(MethodName), Str(OmitName), Num(1)} : getOutputProperty(name)
    \/ getOutputProperties
    \/ \E input \in {Undefined, RootValue, Str(DocPath), Str(BadDocPath),
                     Str(NoFilePath), GoodObject, BadKeyObject},
          fault \in BOOLEAN :
          transform(input, <<>>, fault)

Spec == Init /\ [][Next]_vars

\* the encoder alone, on every value of EncoderValues
NextEncoder == \E value \in EncoderValues : encode(value)

SpecEncoder == Init /\ [][NextEncoder]_vars

\* construction, the resolver calls with their history, and transforms
NextResolver ==
    \/ \E source \in {SheetValue, Str(NoFilePath)} : XSLTProcessor(source)
    \/ \E cb \in {Null, Undefined, Str(<<"a">>), Num(1), Obj(<<>>),
                  PathCallback, MarkupCallback, ObjectCallback, HrefCallback} :
          /\ Len(calls) < MaxCalls
          /\ setUriResolver(cb)
          /\ calls' = Append(calls, cb)
    \/ getUriResolver
    \/ \E requests \in Requests : transform(RootValue, requests, FALSE)

SpecResolver == Init /\ [][NextResolver]_vars

\* construction and the parameter calls, on a wider set of values
NextParams ==
    \/ \E source \in {SheetValue} : XSLTProcessor(source)
    \/ \E name \in {Str(ParamName), Str(<<"q">>), Num(1)},
          value \in {Str(<<>>), Str(<<"a">>), Null, Undefined, Bool(FALSE), Num(12),
                     PlainFunction, GoodObject, BadKeyObject, BadTextObject,
                     SmallList, Arr(<<>>), Obj(<<Prop(<<"b">>, SmallList)>>),
                     HelloValue} :
          setParameter(name, value)
    \/ \E name \in {Str(ParamName), Str(<<"q">>), Num(1)} : getParameter(name)
    \/ clearParameters

SpecParams == Init /\ [][NextParams]_vars


---------------------------------------------------------------------------
(* The claims. *)

NullWord == <<"n", "u", "l", "l">>

\* what getParameter gives back for a value setParameter stored
C1_Expected(v) ==
    IF isString(v) THEN v
    ELSE IF isObject(v) THEN NewXML(value2xml(v)).value
    ELSE Str(String(v))

\* C1: a setParameter(n, v) that returned, with n textual and v no markup
\* value, followed at once by getParameter(n): the call returns v itself when
\* v is textual, the markup value of value2xml(v) (root wrapper kept) when v
\* is an object or a list, and String(v) for every other value.
C1_RoundTrip ==
    [][(/\ last.op = "setParameter"
        /\ last.outcome = "return"
        /\ isString(last.args[1])
        /\ ~isXML(last.args[2])
        /\ last'.op = "getParameter"
        /\ last'.args[1] = last.args[1])
       => last' = Returned("getParameter", <<last.args[1]>>, C1_Expected(last.args[2]))]_vars

C1_Witness ==
    /\ last.op = "getParameter"
    /\ last.outcome = "return"
    /\ last.value = NewXML(value2xml(SmallList)).value
    /\ Holds(parameters, ParamName,
             Document(documentBuilderParse(value2xml(SmallList)).node))

\* the function the history of setUriResolver arguments leaves installed:
\* that of the last call given a function, unless a later call was given null
RECURSIVE Installed(_)
Installed(history) ==
    IF history = <<>> THEN Null
    ELSE IF isNull(history[Len(history)]) THEN Null
    ELSE IF isFunction(history[Len(history)]) THEN history[Len(history)]
    ELSE Installed(SubSeq(history, 1, Len(history) - 1))

\* C2: after any sequence of setUriResolver calls on an instance the
\* installed callback, and what getUriResolver returns, is the function of
\* the most recent call given a function if no later call was given null,
\* and null otherwise; a call given anything else changes nothing, and no
\* setUriResolver call fails.
C2_Resolver ==
    /\ transformer # Absent
          => (IF callback = Absent THEN Null ELSE callback) = Installed(calls)
    /\ last.op = "getUriResolver"
          => last = Returned("getUriResolver", <<>>, Installed(calls))
    /\ last.op = "setUriResolver"
          => last = Returned("setUriResolver", <<calls[Len(calls)]>>, Undefined)

C2_Witness ==
    /\ last.op = "getUriResolver"
    /\ Len(calls) = 3
    /\ isFunction(calls[1])
    /\ isFunction(calls[2])
    /\ calls[1] # calls[2]
    /\ ~isFunction(calls[3]) /\ ~isNull(calls[3])
    /\ last.value = calls[2]

\* the source the three-way dispatch makes of what a callback returned
C3_Source(returned) ==
    IF isString(returned) THEN StreamSourceOfId(returned.s)
    ELSE IF isXML(returned) THEN StreamSourceOfReader(toXMLString(returned))
    ELSE StreamSourceOfReader(value2xml(returned))

\* C3: in a transform, every resource request (href, base) of the engine is
\* answered by exactly one call: of the installed callback with (href, base),
\* its return value turned into the source by the three-way dispatch and the
\* default resolver not consulted, or, with no callback installed, of the
\* default resolver captured at construction with (href, base).
C3_Resolve ==
    last.op = "transform" /\ engineLog # <<>> =>
        /\ (Len(engineLog) - 1) % 3 = 0
        /\ \A k \in 0..(((Len(engineLog) - 1) \div 3) - 1) :
              /\ engineLog[3 * k + 2].ev = "request"
              /\ engineLog[3 * k + 4].ev = "source"
              /\ IF isFunction(Installed(calls))
                 THEN /\ engineLog[3 * k + 3] =
                              [ev |-> "callback", fn |-> Installed(calls),
                               args |-> <<Str(engineLog[3 * k + 2].href),
                                          Str(engineLog[3 * k + 2].base)>>]
                      /\ engineLog[3 * k + 4].source =
                              C3_Source(Call(Installed(calls),
                                             <<Str(engineLog[3 * k + 2].href),
                                               Str(engineLog[3 * k + 2].base)>>))
                 ELSE /\ engineLog[3 * k + 3] =
                              [ev |-> "default", resolver |-> DefaultURIResolver,
                               args |-> <<Str(engineLog[3 * k + 2].href),
                                          Str(engineLog[3 * k + 2].base)>>]
                      /\ engineLog[3 * k + 4].source =
                              StreamSourceOfId(engineLog[3 * k + 2].href)

C3_Witness ==
    /\ last.op = "transform"
    /\ last.outcome = "return"
    /\ Len(engineLog) = 4
    /\ engineLog[3].ev = "callback"
    /\ engineLog[3].fn = ObjectCallback
    /\ engineLog[4].source = StreamSourceOfReader(value2xml(GoodObject))
    /\ Len(calls) = 3
    /\ isNull(calls[1])
    /\ ~isFunction(calls[3])

\* the element content the encoder is said to emit for a primitive value
C4_Content(value) ==
    IF value \in {Undefined, Null, Str(<<>>)} THEN <<>> ELSE String(value)

\* C4: for a value that is neither a list nor an object, at the top level or
\* as the one item of a list, the encoder emits String(value) as the element
\* content, and the empty string only for undefined, null and ''.
C4_Primitive ==
    last.op = "value2xml" =>
        /\ last.args[1] \in Primitives
              => last.value = Str(RootOpen \o C4_Content(last.args[1]) \o RootClose)
        /\ (/\ isArray(last.args[1])
            /\ Len(last.args[1].items) = 1
            /\ last.args[1].items[1] \in Primitives)
              => last.value = Str(RootOpen \o ItemOpen \o <<"0">> \o ItemOpenEnd
                                  \o C4_Content(last.args[1].items[1])
                                  \o ItemClose \o RootClose)

\* C5: setOutputProperty(name, value) with a textual name and an absent or
\* falsy value, when it returns, has stored the empty string under name.
C5_Falsy ==
    (/\ last.op = "setOutputProperty"
     /\ last.outcome = "return"
     /\ isString(last.args[1])
     /\ ~Truthy(last.args[2]))
        => Holds(outputProperties, last.args[1].s, <<>>)

\* C6: a transform call ends in one of three ways. For a string naming no
\* readable file it throws 'File does not exist:' and the path, the engine
\* not having been run. Otherwise the engine was run on the document text
\* of the argument, and the call returns the whole output the engine writes
\* for that document, or throws that document text, which is <root></root>
\* for an absent argument.
C6_Transform ==
    last.op = "transform" =>
        IF isString(last.args[1]) /\ last.args[1].s \notin DOMAIN Files
        THEN /\ last = Thrown("transform", last.args,
                              Str(FileDoesNotExistMsg \o last.args[1].s))
             /\ engineLog = <<>>
        ELSE /\ engineLog # <<>>
             /\ engineLog[1] = [ev |-> "transform", input |-> documentText(last.args[1])]
             /\ \/ /\ last.outcome = "return"
                   /\ documentBuilderParse(documentText(last.args[1])).ok
                   /\ last.value =
                         Str(EngineOutput(
                                documentBuilderParse(documentText(last.args[1])).node))
                \/ /\ last.outcome = "throw"
                   /\ last.value = Str(documentText(last.args[1]))
                   /\ isUndefined(last.args[1])
                         => last.value = Str(RootOpen \o RootClose)

C6_Witness ==
    /\ last = Thrown("transform", <<Undefined>>, Str(RootOpen \o RootClose))
    /\ engineLog = <<[ev |-> "transform", input |-> RootOpen \o RootClose]>>

\* C7: constructing from a source that is no markup value and names no
\* readable file throws 'File not found:' and the path before the engine is
\* asked to compile; constructing from a text the engine rejects throws
\* 'Problem with XSLT stylesheet:' and the text. Either way there is no
\* instance, and no call other than a construction completes without one.
C7_Construction ==
    /\ last.op = "new" /\ ~isXML(last.args[1])
       /\ String(Or(last.args[1], Str(<<>>))) \notin DOMAIN Files
          => /\ last = Thrown("new", last.args,
                              Str(FileNotFoundMsg \o String(Or(last.args[1], Str(<<>>)))))
             /\ engineLog = <<>>
             /\ transformer = Absent
    /\ last.op = "new" /\ engineLog # <<>>
          => /\ engineLog[1].ev = "newTransformer"
             /\ ~newTransformer(engineLog[1].text).ok => last.outcome = "throw"
             /\ last.outcome = "throw"
                   => /\ last.value = Str(StylesheetProblemMsg \o engineLog[1].text)
                      /\ transformer = Absent
             /\ last.outcome = "return"
                   => /\ transformer # Absent
                      /\ transformer.sheet.name \in {XslStylesheet, XslTransform}
    /\ last.op = "new" => (last.outcome = "throw" <=> transformer = Absent)
    /\ transformer = Absent
          => /\ last.op \in {"none", "new"}
             /\ callback = Absent
             /\ DOMAIN parameters = {}
             /\ DOMAIN outputProperties = {}

C7_Witness ==
    /\ last = Thrown("new", <<Str(BadSheetPath)>>,
                     Str(StylesheetProblemMsg \o Files[BadSheetPath]))
    /\ transformer = Absent
    /\ engineLog # <<>>

\* C8: a setParameter or setOutputProperty call whose name is not textual
\* returns without failing, whatever the value, and leaves the parameter
\* table, the output-property table and the resolver callback as they were.
C8_NonTextualName ==
    [][(/\ last'.op \in {"setParameter", "setOutputProperty"}
        /\ ~isString(last'.args[1]))
       => /\ last'.outcome = "return"
          /\ UNCHANGED <<parameters, outputProperties, callback>>]_vars

C8_Witness ==
    /\ last = Returned("setParameter", <<Null, BadKeyObject>>, Undefined)
    /\ DOMAIN parameters # {}
    /\ DOMAIN outputProperties # {}
    /\ callback # Absent

\* C9: clearParameters returns without failing, leaves no parameter stored
\* and leaves the output properties and the resolver callback as they were;
\* getParameter for a name with nothing stored returns the string "null",
\* as it does for a name that null was stored under.
C9_Clear ==
    [][/\ last'.op = "clearParameters"
          => /\ last'.outcome = "return"
             /\ DOMAIN parameters' = {}
             /\ UNCHANGED <<outputProperties, callback>>
       /\ (/\ last'.op = "getParameter"
           /\ \/ String(last'.args[1]) \notin DOMAIN parameters
              \/ Holds(parameters, String(last'.args[1]), JavaString(NullWord)))
          => last' = Returned("getParameter", last'.args, Str(NullWord))]_vars

C9_Witness ==
    /\ last.op = "clearParameters"
    /\ DOMAIN parameters = {}
    /\ DOMAIN outputProperties # {}
    /\ callback # Absent

\* C10: a setParameter call that throws leaves the parameter table as it was
\* before the call, and the value it throws names the parameter.
C10_FailedSet ==
    [][(last'.op = "setParameter" /\ last'.outcome = "throw")
       => /\ parameters' = parameters
          /\ last'.value = Str(SetParameterMsg \o String(last'.args[1]) \o ToMsg
                               \o String(last'.args[2]))]_vars

C10_Witness ==
    /\ last = Thrown("setParameter", <<Str(ParamName), BadKeyObject>>,
                     Str(SetParameterMsg \o ParamName \o ToMsg \o String(BadKeyObject)))
    /\ Holds(parameters, ParamName, JavaString(<<"a">>))

====
